---- MODULE Spec2Model ----
(***************************************************************************)
(* Model of the Tideman (ranked pairs) election of src/src/week3/tideman.rs *)
(* together with quicksort_by of src/src/week3/sort.rs.                    *)
(*                                                                         *)
(* Candidate ids are 0-based as in the source.  Rust vectors are modelled  *)
(* as TLA+ sequences, so the element with id k of a vector v is v[k + 1].  *)
(***************************************************************************)
EXTENDS Integers, Sequences, FiniteSets, TLC

VARIABLES
    pc,             \* position of main (or "api" when methods are driven directly)
    args,           \* candidate names given on the command line (args[1..])
    nodes,          \* TidemanGraph.nodes : sequence of [candidate, links]
    names_ids_map,  \* TidemanGraph.names_ids_map : lowercased name -> id
    votes,          \* TidemanGraph.votes : sequence of ballots
    pairs,          \* TidemanGraph.pairs : sequence of TidemanPair
    voters,         \* number_of_voters read by main
    voter_votes,    \* vote(): ranks accepted so far on the current ballot
    voted,          \* vote(): HashSet of ids used on the current ballot
    margin,         \* tabulate(): the local matrix `pairs`
    ti,             \* tabulate(): number of ballots already accumulated
    li,             \* lock_pairs(): loop index i
    lastLock,       \* arguments and result of the most recent lock call
    winner,         \* value returned by get_winner (id), or -1
    output          \* last line printed / last error raised

vars == <<pc, args, nodes, names_ids_map, votes, pairs, voters, voter_votes,
          voted, margin, ti, li, lastLock, winner, output>>

----------------------------------------------------------------------------
(* Bounds *)

MaxArgs == 3          \* longest candidate list given on the command line
MaxVoters == 3        \* largest number of voters entered
MaxApiNodes == 3      \* largest graph built when methods are driven directly
ScenarioVoters == 7   \* number of ballots of the three-candidate scenario

Names == {"Alice", "alice", "Bob", "Carol"}
VoteInputs == Names \cup {"bob", "Dave"}

\* str::to_lowercase on the names used by the model
to_lowercase(s) ==
    CASE s = "Alice" -> "alice"
      [] s = "Bob"   -> "bob"
      [] s = "Carol" -> "carol"
      [] s = "Dave"  -> "dave"
      [] s = "Erin"  -> "erin"
      [] OTHER       -> s

NoLock == [winner_id |-> -1, loser_id |-> -1, result |-> "none"]
EmptyMap == [k \in {} |-> 0]
EmptyMatrix == [i \in {} |-> 0]

Range(s) == {s[k] : k \in 1..Len(s)}

----------------------------------------------------------------------------
(* TidemanNode, TidemanPair *)

TidemanNode_new(name) == [candidate |-> name, links |-> <<>>]

TidemanPair_new(w, l, weight) == [winner_id |-> w, loser_id |-> l, weight |-> weight]

\* TidemanNode::link applied to node `id` of the vector ns
link(ns, id, node_id) ==
    [ns EXCEPT ![id + 1].links = Append(@, node_id)]

\* variant of links_pop that removes the oldest link instead of the newest
links_pop_first(ns, id) ==
    [ns EXCEPT ![id + 1].links = SubSeq(@, 2, Len(@))]

\* Vec::pop on the links of node `id`
links_pop(ns, id) ==
    [ns EXCEPT ![id + 1].links = SubSeq(@, 1, Len(@) - 1)]

----------------------------------------------------------------------------
(* add_candidate *)

MapInsert(m, key, v) == [k \in (DOMAIN m) \cup {key} |-> IF k = key THEN v ELSE m[k]]

\* variant of add_candidate that keys the map by the name as given
add_candidate_case_sensitive(ns, m, name) ==
    LET m2 == MapInsert(m, name, Len(ns))
    IN  IF name \in DOMAIN m
        THEN [nodes |-> ns, map |-> m2, result |-> "CandidateAlreadyExistsError"]
        ELSE [nodes |-> Append(ns, TidemanNode_new(name)), map |-> m2, result |-> "Ok"]

\* the map is written before the outcome of the insert is looked at
add_candidate(ns, m, name) ==
    LET key == to_lowercase(name)
        m2  == MapInsert(m, key, Len(ns))
    IN  IF key \in DOMAIN m
        THEN [nodes |-> ns, map |-> m2, result |-> "CandidateAlreadyExistsError"]
        ELSE [nodes |-> Append(ns, TidemanNode_new(name)), map |-> m2, result |-> "Ok"]

----------------------------------------------------------------------------
(* contains / get_candidate_id *)

\* the key is looked up as given
contains(m, candidate) == candidate \in DOMAIN m

get_candidate_id(m, candidate) ==
    IF contains(m, candidate)
    THEN [result |-> "Ok", id |-> m[candidate]]
    ELSE [result |-> "CandidateNotFoundError", id |-> -1]

----------------------------------------------------------------------------
(* has_cycles_from / has_cycles_dfs *)

RECURSIVE has_cycles_dfs(_, _, _), has_cycles_links(_, _, _, _)

\* returns [found, visited]; visited is the HashSet shared by the recursion
has_cycles_dfs(ns, node_id, visited) ==
    IF node_id \in visited
    THEN [found |-> TRUE, visited |-> visited]
    ELSE has_cycles_links(ns, node_id, 1, visited \cup {node_id})

\* the for loop over nodes[node_id].links, from position k on
has_cycles_links(ns, node_id, k, visited) ==
    IF k > Len(ns[node_id + 1].links)
    THEN [found |-> FALSE, visited |-> visited]
    ELSE LET r == has_cycles_dfs(ns, ns[node_id + 1].links[k], visited)
         IN  IF r.found THEN r
             ELSE has_cycles_links(ns, node_id, k + 1, r.visited)

\* variant of has_cycles_from that marks the start node before the search
has_cycles_from_marked(ns, node_id) == has_cycles_dfs(ns, node_id, {node_id}).found

has_cycles_from(ns, node_id) == has_cycles_dfs(ns, node_id, {}).found

RECURSIVE has_cycles_dfs_fuel(_, _, _, _)
RECURSIVE has_cycles_links_fuel(_, _, _, _, _)

\* variant of has_cycles_dfs_fuel that never inserts the node into visited
has_cycles_dfs_unmarked(ns, node_id, visited, fuel) ==
    IF fuel = 0
    THEN [found |-> FALSE, visited |-> visited, fuel |-> 0, out |-> TRUE]
    ELSE IF node_id \in visited
    THEN [found |-> TRUE, visited |-> visited, fuel |-> fuel - 1, out |-> FALSE]
    ELSE has_cycles_links_fuel(ns, node_id, 1, visited, fuel - 1)

\* has_cycles_dfs with its calls counted: every call takes one unit of fuel,
\* and a call made with no fuel left gives up (out)
has_cycles_dfs_fuel(ns, node_id, visited, fuel) ==
    IF fuel = 0
    THEN [found |-> FALSE, visited |-> visited, fuel |-> 0, out |-> TRUE]
    ELSE IF node_id \in visited
    THEN [found |-> TRUE, visited |-> visited, fuel |-> fuel - 1, out |-> FALSE]
    ELSE has_cycles_links_fuel(ns, node_id, 1, visited \cup {node_id}, fuel - 1)

\* the for loop over nodes[node_id].links, from position k on, calls counted
has_cycles_links_fuel(ns, node_id, k, visited, fuel) ==
    IF k > Len(ns[node_id + 1].links)
    THEN [found |-> FALSE, visited |-> visited, fuel |-> fuel, out |-> FALSE]
    ELSE LET r == has_cycles_dfs_fuel(ns, ns[node_id + 1].links[k], visited, fuel)
         IN  IF r.found \/ r.out THEN r
             ELSE has_cycles_links_fuel(ns, node_id, k + 1, r.visited, r.fuel)

----------------------------------------------------------------------------
(* lock *)

ValidId(ns, id) == id >= 0 /\ id < Len(ns)

\* variant of lock that leaves the tentative edge in place when a cycle is found
lock_without_rollback(ns, winner_id, loser_id) ==
    IF ~ValidId(ns, winner_id) \/ ~ValidId(ns, loser_id)
    THEN [nodes |-> ns, result |-> "CandidateNotFoundError"]
    ELSE LET linked == link(ns, winner_id, loser_id)
         IN  IF has_cycles_from(linked, winner_id)
             THEN [nodes |-> linked, result |-> "LockCreatedCycleError"]
             ELSE [nodes |-> linked, result |-> "Ok"]

\* variant of lock whose answer depends on how many attempts were made before
lock_every_other(ns, winner_id, loser_id) ==
    IF ~ValidId(ns, winner_id) \/ ~ValidId(ns, loser_id)
    THEN [nodes |-> ns, result |-> "CandidateNotFoundError"]
    ELSE LET linked == link(ns, winner_id, loser_id)
         IN  IF li % 2 = 1 \/ has_cycles_from(linked, winner_id)
             THEN [nodes |-> links_pop(linked, winner_id), result |-> "LockCreatedCycleError"]
             ELSE [nodes |-> linked, result |-> "Ok"]

\* variant of lock that draws the edge from the loser to the winner
lock_reversed(ns, winner_id, loser_id) ==
    IF ~ValidId(ns, winner_id) \/ ~ValidId(ns, loser_id)
    THEN [nodes |-> ns, result |-> "CandidateNotFoundError"]
    ELSE LET linked == link(ns, loser_id, winner_id)
         IN  IF has_cycles_from(linked, loser_id)
             THEN [nodes |-> links_pop(linked, loser_id), result |-> "LockCreatedCycleError"]
             ELSE [nodes |-> linked, result |-> "Ok"]

lock(ns, winner_id, loser_id) ==
    IF ~ValidId(ns, winner_id) \/ ~ValidId(ns, loser_id)
    THEN [nodes |-> ns, result |-> "CandidateNotFoundError"]
    ELSE LET linked == link(ns, winner_id, loser_id)
         IN  IF has_cycles_from(linked, winner_id)
             THEN [nodes |-> links_pop(linked, winner_id), result |-> "LockCreatedCycleError"]
             ELSE [nodes |-> linked, result |-> "Ok"]

RECURSIVE lock_pairs_from(_, _, _, _)
\* the loop of lock_pairs run as a whole on the pair list ps, from index k
\* up to (not including) index n; the result of every lock call is dropped
lock_pairs_from(ns, ps, k, n) ==
    IF k >= n THEN ns
    ELSE lock_pairs_from(lock(ns, ps[k + 1].winner_id, ps[k + 1].loser_id).nodes,
                         ps, k + 1, n)

----------------------------------------------------------------------------
(* tabulate: the margin matrix *)

ZeroMatrix(n) == [i \in 0..(n - 1) |-> [j \in 0..(n - 1) |-> 0]]

\* variant of Tally that forgets the decrement of the mirrored entry
Tally_without_decrement(M, a, b) == [M EXCEPT ![a][b] = @ + 1]

\* variant of Tally that assigns instead of accumulating
Tally_overwrite(M, a, b) ==
    LET M1 == [M EXCEPT ![a][b] = 1]
    IN  [M1 EXCEPT ![b][a] = -1]

\* pairs[a][b] += 1; pairs[b][a] -= 1;
Tally(M, a, b) ==
    LET M1 == [M EXCEPT ![a][b] = @ + 1]
    IN  [M1 EXCEPT ![b][a] = @ - 1]

RECURSIVE AccumulateLoop(_, _, _, _, _)

\* the loops over i in 0..n-1 and j in i+1..n for one ballot v, from (i, j) on
AccumulateLoop(M, v, i, j, n) ==
    IF i >= n - 1 THEN M
    ELSE IF j >= n THEN AccumulateLoop(M, v, i + 1, i + 2, n)
    ELSE AccumulateLoop(Tally(M, v[i + 1], v[j + 1]), v, i, j + 1, n)

RECURSIVE AdjacentLoop(_, _, _, _)
AdjacentLoop(M, v, i, n) ==
    IF i >= n - 1 THEN M
    ELSE AdjacentLoop(Tally(M, v[i + 1], v[i + 2]), v, i + 1, n)

\* variant of AccumulateBallot that only compares neighbouring ranks
AccumulateBallot_adjacent(M, v, n) == AdjacentLoop(M, v, 0, n)

AccumulateBallot(M, v, n) == AccumulateLoop(M, v, 0, 1, n)

----------------------------------------------------------------------------
(* tabulate: the pair list *)

\* variant of BuildPair that never swaps winner and loser
BuildPair_unsigned(M, i, j) == TidemanPair_new(i, j, M[i][j])

\* variant of BuildPair that forgets to negate the weight
BuildPair_keeps_sign(M, i, j) ==
    IF M[i][j] < 0
    THEN TidemanPair_new(j, i, M[i][j])
    ELSE TidemanPair_new(i, j, M[i][j])

\* variant of BuildPair that gives a zero margin to the other candidate
BuildPair_zero_swapped(M, i, j) ==
    IF M[i][j] <= 0
    THEN TidemanPair_new(j, i, -M[i][j])
    ELSE TidemanPair_new(i, j, M[i][j])

BuildPair(M, i, j) ==
    IF M[i][j] < 0
    THEN TidemanPair_new(j, i, -M[i][j])
    ELSE TidemanPair_new(i, j, M[i][j])

RECURSIVE BuildLoop(_, _, _, _, _)

\* the loops over i in 1..n and j in 0..i, from (i, j) on, pushing onto acc
BuildLoop(M, i, j, n, acc) ==
    IF i >= n THEN acc
    ELSE IF j >= i THEN BuildLoop(M, i + 1, 0, n, acc)
    ELSE BuildLoop(M, i, j + 1, n, Append(acc, BuildPair(M, i, j)))

RECURSIVE LowerFirstLoop(_, _, _, _, _)

\* loops over the lower id i in 0..n-1 and the higher id j in i+1..n
LowerFirstLoop(M, i, j, n, acc) ==
    IF i >= n - 1 THEN acc
    ELSE IF j >= n THEN LowerFirstLoop(M, i + 1, i + 2, n, acc)
    ELSE LowerFirstLoop(M, i, j + 1, n, Append(acc, BuildPair(M, j, i)))

\* variant of BuildPairs that pushes the same pairs, lower id first
BuildPairs_lower_first(M, n, acc) == LowerFirstLoop(M, 0, 1, n, acc)

BuildPairs(M, n, acc) == BuildLoop(M, 1, 0, n, acc)

----------------------------------------------------------------------------
(* sort::quicksort_by with the comparator of tabulate *)

\* variant of the comparator that sorts by ascending weight
is_smaller_ascending(bigger, smaller) == bigger.weight < smaller.weight

\* |bigger, smaller| smaller.weight < bigger.weight
is_smaller(bigger, smaller) == smaller.weight < bigger.weight

\* slice::swap with 0-based positions
swap(a, i, j) == [a EXCEPT ![i + 1] = a[j + 1], ![j + 1] = a[i + 1]]

Xor(p, q) == p /= q

position_pivot(a) ==
    LET length == Len(a)
        mid    == length \div 2
        pivot_position ==
            IF Xor(is_smaller(a[mid + 1], a[1]), is_smaller(a[length], a[1])) THEN 0
            ELSE IF Xor(is_smaller(a[1], a[mid + 1]), is_smaller(a[length], a[mid + 1])) THEN mid
            ELSE length - 1
    IN  swap(a, pivot_position, length - 1)

RECURSIVE partition_loop(_, _, _, _)

\* the for loop of quicksort_partition from i on; returns [array, pivot_position]
partition_loop(a, pivot, i, pivot_position) ==
    IF i >= Len(a) - 1
    THEN [array |-> a, pivot_position |-> pivot_position]
    ELSE IF is_smaller(a[i + 1], pivot)
         THEN partition_loop(swap(a, i, pivot_position), pivot, i + 1, pivot_position + 1)
         ELSE partition_loop(a, pivot, i + 1, pivot_position)

quicksort_partition(a) ==
    IF Len(a) = 2
    THEN [array |-> IF is_smaller(a[2], a[1]) THEN swap(a, 0, 1) ELSE a,
          pivot_position |-> 1]
    ELSE LET positioned == position_pivot(a)
             pivot      == positioned[Len(a)]
             r          == partition_loop(positioned, pivot, 0, 0)
         IN  [array |-> swap(r.array, r.pivot_position, Len(a) - 1),
              pivot_position |-> r.pivot_position]

RECURSIVE quicksort_by_left_only(_)

\* variant of quicksort_by that forgets to sort the part right of the pivot
quicksort_by_left_only(a) ==
    IF Len(a) > 1
    THEN LET r == quicksort_partition(a)
             p == r.pivot_position
         IN  quicksort_by_left_only(SubSeq(r.array, 1, p))
               \o SubSeq(r.array, p + 1, Len(a))
    ELSE a

RECURSIVE quicksort_by(_)

quicksort_by(a) ==
    IF Len(a) > 1
    THEN LET r == quicksort_partition(a)
             p == r.pivot_position
         IN  quicksort_by(SubSeq(r.array, 1, p))
               \o <<r.array[p + 1]>>
               \o quicksort_by(SubSeq(r.array, p + 2, Len(a)))
    ELSE a

----------------------------------------------------------------------------
(* get_winner *)

\* variant of possible_winners that removes no link target
possible_winners_unfiltered(ns) == 0..(Len(ns) - 1)

\* ids left in possible_winners after every link target has been removed
possible_winners(ns) ==
    (0..(Len(ns) - 1)) \ UNION {Range(ns[k].links) : k \in 1..Len(ns)}

\* the ids the find() over the HashSet can yield: its iteration order is unspecified
winner_choices(ns) == {p \in possible_winners(ns) : Len(ns[p + 1].links) > 0}

----------------------------------------------------------------------------
(* Initial state: TidemanGraph::new() and the locals of main not yet set *)

Init ==
    /\ pc = "start"
    /\ args = <<>>
    /\ nodes = <<>>
    /\ names_ids_map = EmptyMap
    /\ votes = <<>>
    /\ pairs = <<>>
    /\ voters = 0
    /\ voter_votes = <<>>
    /\ voted = {}
    /\ margin = EmptyMatrix
    /\ ti = 0
    /\ li = 0
    /\ lastLock = NoLock
    /\ winner = -1
    /\ output = "none"

RECURSIVE SeqsUpTo(_, _)
SeqsUpTo(S, n) ==
    IF n = 0 THEN {<<>>}
    ELSE LET shorter == SeqsUpTo(S, n - 1)
         IN  shorter \cup {Append(q, x) : q \in shorter, x \in S}

ArgLists == SeqsUpTo(Names, MaxArgs)

\* a line typed at the "Number of voters: " prompt and what parse::<i32> makes of it
VoterInputs ==
    {[number |-> TRUE, value |-> k] : k \in (-1)..MaxVoters}
        \cup {[number |-> FALSE, value |-> 0]}

----------------------------------------------------------------------------
(* main *)

\* the argument check at the top of main
MainStart ==
    /\ pc = "start"
    /\ \E a \in ArgLists :
          /\ args' = a
          /\ IF Len(a) + 1 < 3
             THEN pc' = "panic" /\ output' = "Usage"
             ELSE pc' = "register" /\ output' = output
    /\ UNCHANGED <<nodes, names_ids_map, votes, pairs, voters, voter_votes, voted,
                   margin, ti, li, lastLock, winner>>

\* one iteration of the fold over the arguments
MainAddCandidate ==
    /\ pc = "register"
    /\ Len(nodes) < Len(args)
    /\ LET r == add_candidate(nodes, names_ids_map, args[Len(nodes) + 1])
       IN  /\ nodes' = r.nodes
           /\ names_ids_map' = r.map
           /\ IF r.result /= "Ok"
              THEN pc' = "panic" /\ output' = r.result
              ELSE /\ output' = output
                   /\ pc' = IF Len(r.nodes) = Len(args) THEN "voters" ELSE "register"
    /\ UNCHANGED <<args, votes, pairs, voters, voter_votes, voted, margin, ti, li,
                   lastLock, winner>>

\* one pass of the loop that reads the number of voters
MainReadVoters ==
    /\ pc = "voters"
    /\ \E inp \in VoterInputs :
          IF inp.number
          THEN /\ voters' = inp.value
               /\ pc' = IF inp.value > 0 THEN "vote" ELSE "tabulate"
               /\ output' = "Rank"
          ELSE /\ voters' = voters
               /\ pc' = pc
               /\ output' = "The number of voters should be and integer"
    /\ UNCHANGED <<args, nodes, names_ids_map, votes, pairs, voter_votes, voted,
                   margin, ti, li, lastLock, winner>>

----------------------------------------------------------------------------
(* vote: one line read at a "Rank k: " prompt *)

\* variant of voted_insert that accepts an id already used on the ballot
voted_insert_always(vd, index) == TRUE

\* HashSet::insert on `voted`: true when the id was not yet in the set
voted_insert(vd, index) == index \notin vd

\* the line inp is entered
VoteEntryOf(inp) ==
    /\ pc = "vote"
    /\ Len(votes) < voters
    /\ LET vote == to_lowercase(inp)
       IN  IF vote \in DOMAIN names_ids_map
           THEN LET index == names_ids_map[vote]
                IN  IF voted_insert(voted, index)
                    THEN LET vv == Append(voter_votes, index)
                         IN  IF Len(vv) = Len(nodes)
                             THEN /\ votes' = Append(votes, vv)
                                  /\ voter_votes' = <<>>
                                  /\ voted' = {}
                                  /\ output' = "Rank"
                                  /\ pc' = IF Len(votes) + 1 < voters
                                           THEN "vote" ELSE "tabulate"
                             ELSE /\ votes' = votes
                                  /\ voter_votes' = vv
                                  /\ voted' = voted \cup {index}
                                  /\ output' = "Rank"
                                  /\ pc' = pc
                    ELSE /\ output' = "You already voted for that candidate"
                         /\ UNCHANGED <<votes, voter_votes, voted, pc>>
           ELSE /\ output' = "That candidate does not exist"
                /\ UNCHANGED <<votes, voter_votes, voted, pc>>
    /\ UNCHANGED <<args, nodes, names_ids_map, pairs, voters, margin, ti, li,
                   lastLock, winner>>

VoteEntry == \E inp \in VoteInputs : VoteEntryOf(inp)

----------------------------------------------------------------------------
(* tabulate *)

\* the zero matrix is allocated
TabulateBegin ==
    /\ pc = "tabulate"
    /\ margin' = ZeroMatrix(Len(nodes))
    /\ ti' = 0
    /\ pc' = "tally"
    /\ UNCHANGED <<args, nodes, names_ids_map, votes, pairs, voters, voter_votes,
                   voted, li, lastLock, winner, output>>

\* one iteration of `for v in self.votes.iter()`
TabulateBallot ==
    /\ pc = "tally"
    /\ ti < Len(votes)
    /\ margin' = AccumulateBallot(margin, votes[ti + 1], Len(nodes))
    /\ ti' = ti + 1
    /\ UNCHANGED <<pc, args, nodes, names_ids_map, votes, pairs, voters, voter_votes,
                   voted, li, lastLock, winner, output>>

\* the pairs are pushed and sorted
TabulatePairs ==
    /\ pc = "tally"
    /\ ti = Len(votes)
    /\ pairs' = quicksort_by(BuildPairs(margin, Len(nodes), pairs))
    /\ li' = 0
    /\ pc' = "lock"
    /\ UNCHANGED <<args, nodes, names_ids_map, votes, voters, voter_votes, voted,
                   margin, ti, lastLock, winner, output>>

----------------------------------------------------------------------------
(* lock_pairs and get_winner *)

\* variant of LockPairsStep that lets the error of lock end the loop
LockPairsStep_propagates ==
    /\ pc = "lock"
    /\ li < Len(pairs)
    /\ LET p == pairs[li + 1]
           r == lock(nodes, p.winner_id, p.loser_id)
       IN  /\ nodes' = r.nodes
           /\ lastLock' = [winner_id |-> p.winner_id, loser_id |-> p.loser_id,
                           result |-> r.result]
           /\ IF r.result = "Ok"
              THEN /\ pc' = IF li + 1 < Len(pairs) THEN "lock" ELSE "winner"
                   /\ output' = output
              ELSE /\ pc' = "panic"
                   /\ output' = r.result
    /\ li' = li + 1
    /\ UNCHANGED <<args, names_ids_map, votes, pairs, voters, voter_votes, voted,
                   margin, ti, winner>>

\* variant of LockPairsStep that does not attempt a pair of weight zero
LockPairsStep_skips_ties ==
    /\ pc = "lock"
    /\ li < Len(pairs)
    /\ LET p == pairs[li + 1]
           r == IF p.weight = 0
                THEN [nodes |-> nodes, result |-> "Ok"]
                ELSE lock(nodes, p.winner_id, p.loser_id)
       IN  /\ nodes' = r.nodes
           /\ lastLock' = [winner_id |-> p.winner_id, loser_id |-> p.loser_id,
                           result |-> r.result]
    /\ li' = li + 1
    /\ pc' = IF li + 1 < Len(pairs) THEN "lock" ELSE "winner"
    /\ UNCHANGED <<args, names_ids_map, votes, pairs, voters, voter_votes, voted,
                   margin, ti, winner, output>>

\* one iteration of the loop of lock_pairs: one call of lock
LockPairsStep ==
    /\ pc = "lock"
    /\ li < Len(pairs)
    /\ LET p == pairs[li + 1]
           r == lock(nodes, p.winner_id, p.loser_id)
       IN  /\ nodes' = r.nodes
           /\ lastLock' = [winner_id |-> p.winner_id, loser_id |-> p.loser_id,
                           result |-> r.result]
    /\ li' = li + 1
    /\ pc' = IF li + 1 < Len(pairs) THEN "lock" ELSE "winner"
    /\ UNCHANGED <<args, names_ids_map, votes, pairs, voters, voter_votes, voted,
                   margin, ti, winner, output>>

GetWinner ==
    /\ pc = "winner"
    /\ IF winner_choices(nodes) = {}
       THEN /\ pc' = "panic"
            /\ output' = "Could not compute winner"
            /\ winner' = -1
       ELSE /\ \E w \in winner_choices(nodes) : winner' = w
            /\ output' = "The winner is"
            /\ pc' = "done"
    /\ UNCHANGED <<args, nodes, names_ids_map, votes, pairs, voters, voter_votes,
                   voted, margin, ti, li, lastLock>>

AfterVote == TabulateBegin \/ TabulateBallot \/ TabulatePairs \/ LockPairsStep \/ GetWinner

Next == MainStart \/ MainAddCandidate \/ MainReadVoters \/ VoteEntry \/ AfterVote

Spec == Init /\ [][Next]_vars

----------------------------------------------------------------------------
(* The methods of TidemanGraph driven directly, in any order, on a graph   *)
(* that starts as TidemanGraph::new().                                     *)

ApiCandidates == <<"Alice", "Bob", "Carol", "Dave", "Erin">>

RECURSIVE Registered(_)
\* the graph after add_candidate has been called for the first n of ApiCandidates
Registered(n) ==
    IF n = 0 THEN [nodes |-> <<>>, map |-> EmptyMap, result |-> "Ok"]
    ELSE LET g == Registered(n - 1)
         IN  add_candidate(g.nodes, g.map, ApiCandidates[n])

InitApi ==
    /\ pc = "api"
    /\ args = <<>>
    /\ \E n \in 0..MaxApiNodes :
          /\ nodes = Registered(n).nodes
          /\ names_ids_map = Registered(n).map
    /\ votes = <<>>
    /\ pairs = <<>>
    /\ voters = 0
    /\ voter_votes = <<>>
    /\ voted = {}
    /\ margin = EmptyMatrix
    /\ ti = 0
    /\ li = 0
    /\ lastLock = NoLock
    /\ winner = -1
    /\ output = "none"

\* lock called with any two ids, in range or not
ApiLock ==
    /\ pc = "api"
    /\ \E w \in 0..MaxApiNodes, l \in 0..MaxApiNodes :
          LET r == lock(nodes, w, l)
          IN  /\ nodes' = r.nodes
              /\ lastLock' = [winner_id |-> w, loser_id |-> l, result |-> r.result]
              /\ output' = r.result
    /\ winner' = -1
    /\ UNCHANGED <<pc, args, names_ids_map, votes, pairs, voters, voter_votes, voted,
                   margin, ti, li>>

ApiGetWinner ==
    /\ pc = "api"
    /\ IF winner_choices(nodes) = {}
       THEN /\ pc' = "panic"
            /\ output' = "Could not compute winner"
            /\ winner' = -1
       ELSE /\ \E w \in winner_choices(nodes) : winner' = w
            /\ output' = "returned"
            /\ pc' = pc
    /\ lastLock' = NoLock
    /\ UNCHANGED <<args, nodes, names_ids_map, votes, pairs, voters, voter_votes,
                   voted, margin, ti, li>>

NextApi == ApiLock \/ ApiGetWinner

SpecApi == InitApi /\ [][NextApi]_vars

----------------------------------------------------------------------------
(* The election of three candidates registered as Alice, Bob, Carol, from  *)
(* the point where vote() has returned with ScenarioVoters ballots.        *)

BallotList ==
    << <<0, 1, 2>>, <<0, 2, 1>>, <<1, 0, 2>>, <<1, 2, 0>>, <<2, 0, 1>>, <<2, 1, 0>> >>

RECURSIVE SortedTypeSeqs(_, _)
\* the non-decreasing sequences of n ballot types, none below lo
SortedTypeSeqs(n, lo) ==
    IF n = 0 THEN {<<>>}
    ELSE UNION {{<<t>> \o q : q \in SortedTypeSeqs(n - 1, t)} : t \in lo..Len(BallotList)}

ScenarioBallots ==
    {[k \in 1..ScenarioVoters |-> BallotList[q[k]]] : q \in SortedTypeSeqs(ScenarioVoters, 1)}

ScenarioArgs == <<"Alice", "Bob", "Carol">>

InitScenario ==
    /\ pc = "tabulate"
    /\ args = ScenarioArgs
    /\ nodes = [k \in 1..3 |-> TidemanNode_new(ScenarioArgs[k])]
    /\ names_ids_map = [k \in {"alice", "bob", "carol"} |->
                            CASE k = "alice" -> 0 [] k = "bob" -> 1 [] OTHER -> 2]
    /\ votes \in ScenarioBallots
    /\ pairs = <<>>
    /\ voters = ScenarioVoters
    /\ voter_votes = <<>>
    /\ voted = {}
    /\ margin = EmptyMatrix
    /\ ti = 0
    /\ li = 0
    /\ lastLock = NoLock
    /\ winner = -1
    /\ output = "Rank"

SpecScenario == InitScenario /\ [][AfterVote]_vars

----------------------------------------------------------------------------
(* Graph notions used to state the properties *)

Succ(ns, a) == Range(ns[a + 1].links)

RECURSIVE Closure(_, _)
\* the ids reachable from the set `seen` by zero or more locked edges
Closure(ns, seen) ==
    LET more == seen \cup UNION {Succ(ns, a) : a \in seen}
    IN  IF more = seen THEN seen ELSE Closure(ns, more)

\* a path of at least one locked edge leads from a to b
HasPath(ns, a, b) == b \in Closure(ns, Succ(ns, a))

Acyclic(ns) == \A a \in 0..(Len(ns) - 1) : ~HasPath(ns, a, a)

HasEdge(ns, a, b) == b \in Succ(ns, a)

Incoming(ns, b) == {a \in 0..(Len(ns) - 1) : HasEdge(ns, a, b)}

\* the candidates with no incoming locked edge and at least one outgoing one
Undefeated(ns) == {c \in 0..(Len(ns) - 1) : Incoming(ns, c) = {} /\ Succ(ns, c) /= {}}

EdgeCount(ns) == Cardinality({<<a, b>> \in (0..(Len(ns) - 1)) \X (0..(Len(ns) - 1)) : HasEdge(ns, a, b)})

----------------------------------------------------------------------------
(* Ballot notions used to state the properties *)

\* rank (1-based position) of candidate c on ballot v
Rank(v, c) == CHOOSE k \in 1..Len(v) : v[k] = c

\* how many of the first t ballots rank i ahead of j
Prefer(i, j, t) == Cardinality({k \in 1..t : Rank(votes[k], i) < Rank(votes[k], j)})

NetMargin(i, j, t) == Prefer(i, j, t) - Prefer(j, i, t)

Tabulated == pc \in {"lock", "winner", "done"}

LockingOver == pc \in {"winner", "done"}

----------------------------------------------------------------------------
(* All of the above together: main, or the methods driven directly *)

SpecAll == (Init \/ InitApi) /\ [][Next \/ NextApi]_vars

----------------------------------------------------------------------------
(* C1 *)

\* C1: after every call of lock, whatever it returned, and so in every state
\* during and after lock_pairs, the locked edges contain no directed cycle.
C1_LockGraphAcyclic == Acyclic(nodes)

\* during lock_pairs a lock was refused because the loser already reached the winner
C1_Witness ==
    /\ pc \in {"lock", "winner"}
    /\ lastLock.result = "LockCreatedCycleError"
    /\ lastLock.winner_id /= lastLock.loser_id
    /\ HasPath(nodes, lastLock.loser_id, lastLock.winner_id)

----------------------------------------------------------------------------
(* C2 *)

\* the graph on which the most recent lock call was made
BeforeLastLock ==
    IF lastLock.result = "Ok" THEN links_pop(nodes, lastLock.winner_id) ELSE nodes

\* C2: on an acyclic graph and two distinct valid ids, lock returns
\* LockCreatedCycleError exactly when a locked path loser ~> winner exists,
\* and otherwise keeps the edge and returns Ok.
C2_CycleErrorIffRealCycle ==
    (lastLock.result \in {"Ok", "LockCreatedCycleError"}
        /\ lastLock.winner_id /= lastLock.loser_id)
    => /\ (lastLock.result = "LockCreatedCycleError")
            <=> HasPath(BeforeLastLock, lastLock.loser_id, lastLock.winner_id)
       /\ (lastLock.result = "Ok")
            <=> HasEdge(nodes, lastLock.winner_id, lastLock.loser_id)

----------------------------------------------------------------------------
(* C3 *)

\* C3: after tabulate and lock_pairs exactly one candidate has no incoming
\* locked edge and at least one outgoing one, so get_winner has one choice.
C3_UniqueUndefeated ==
    LockingOver => Cardinality(Undefeated(nodes)) = 1

----------------------------------------------------------------------------
(* C4 *)

GetWinnerCalled == output \in {"The winner is", "returned", "Could not compute winner"}

\* C4: a candidate returned by get_winner has no incoming locked edge and a
\* non-empty links list; when no candidate has both, get_winner panics
\* instead of returning.
C4_WinnerIsUndefeated ==
    /\ winner /= -1 => winner \in Undefeated(nodes)
    /\ GetWinnerCalled =>
          IF Undefeated(nodes) = {}
          THEN pc = "panic" /\ winner = -1
          ELSE pc /= "panic" /\ winner \in Undefeated(nodes)

\* a winner was returned on a graph where another candidate has outgoing
\* edges but also an incoming one
C4_Witness ==
    /\ winner /= -1
    /\ output = "returned"
    /\ \E c \in 0..(Len(nodes) - 1) :
          c /= winner /\ Succ(nodes, c) /= {} /\ Incoming(nodes, c) /= {}

----------------------------------------------------------------------------
(* C5 *)

\* two candidates, and as many ballots rank the one first as the other
TwoWayTie ==
    /\ Len(nodes) = 2
    /\ Prefer(0, 1, Len(votes)) = Prefer(1, 0, Len(votes))

\* C5: with exactly two candidates in an exact tie the pair's margin is 0,
\* lock_pairs locks no edge between them and get_winner signals the
\* no-winner error instead of returning a candidate.
C5_TieHasNoWinner ==
    (TwoWayTie /\ Tabulated) =>
        /\ pairs[1].weight = 0
        /\ EdgeCount(nodes) = 0
        /\ pc /= "done"
        /\ winner = -1

----------------------------------------------------------------------------
(* C6 *)

\* margins of the scenario: A over B by 5, B over C by 1, C over A by 1
ScenarioMargins ==
    /\ Len(nodes) = 3
    /\ NetMargin(0, 1, Len(votes)) = 5
    /\ NetMargin(1, 2, Len(votes)) = 1
    /\ NetMargin(2, 0, Len(votes)) = 1

\* what C6 and its amendment share: A->B is the first lock attempted, it
\* succeeds and stays; exactly one of B->C and C->A ends up locked
ScenarioLocks ==
    /\ pairs[1].winner_id = 0 /\ pairs[1].loser_id = 1
    /\ (li = 1 => lastLock = [winner_id |-> 0, loser_id |-> 1, result |-> "Ok"])
    /\ (li >= 1 => HasEdge(nodes, 0, 1))
    /\ (LockingOver => (HasEdge(nodes, 1, 2) /= HasEdge(nodes, 2, 0)))
    /\ (LockingOver => EdgeCount(nodes) = 2)

\* C6 (as claimed): in the scenario A->B locks first and stays, exactly one
\* of B->C and C->A is locked, and get_winner returns A.
C6_ScenarioWinnerIsA ==
    (ScenarioMargins /\ Tabulated) =>
        /\ ScenarioLocks
        /\ pc /= "panic"
        /\ (pc = "done" => winner = 0)

\* C6 (amended): in the scenario A->B locks first and stays, then C->A is
\* locked, B->C is the lock refused as a cycle, and get_winner returns C.
C6_ScenarioWinnerIsC ==
    (ScenarioMargins /\ Tabulated) =>
        /\ ScenarioLocks
        /\ pc /= "panic"
        /\ (LockingOver =>
              /\ HasEdge(nodes, 2, 0)
              /\ ~HasEdge(nodes, 1, 2)
              /\ lastLock = [winner_id |-> 1, loser_id |-> 2,
                             result |-> "LockCreatedCycleError"])
        /\ (pc = "done" => winner = 2)

C6_Witness == ScenarioMargins /\ pc = "done" /\ winner = 2

----------------------------------------------------------------------------
(* C7 *)

\* C7: with exactly two candidates, if strictly more ballots rank X above Y
\* than Y above X, then whatever the registration order exactly the edge
\* X->Y is locked and get_winner returns X.
C7_TwoCandidateMajority ==
    \A X \in {0, 1} :
        LET Y == 1 - X
        IN  (Len(nodes) = 2 /\ Prefer(X, Y, Len(votes)) > Prefer(Y, X, Len(votes)))
            => /\ output /= "Could not compute winner"
               /\ LockingOver => /\ nodes[X + 1].links = <<Y>>
                                 /\ nodes[Y + 1].links = <<>>
               /\ pc = "done" => winner = X

\* the candidate registered second wins, without being first on every ballot
C7_Witness ==
    /\ Len(nodes) = 2
    /\ pc = "done"
    /\ winner = 1
    /\ Prefer(1, 0, Len(votes)) > Prefer(0, 1, Len(votes))
    /\ Prefer(0, 1, Len(votes)) > 0

----------------------------------------------------------------------------
(* C8 *)

MatrixBuilt == pc \in {"tally", "lock", "winner", "done"}

\* C8: the margin matrix is antisymmetric, M[i][j] = -M[j][i] for i /= j,
\* after each ballot has been accumulated and at the end.
C8_MarginAntisymmetric ==
    MatrixBuilt =>
        \A i, j \in 0..(Len(nodes) - 1) : i /= j => margin[i][j] = -margin[j][i]

\* part of the ballots accumulated, with a non-zero margin
C8_Witness ==
    /\ pc = "tally"
    /\ ti >= 1 /\ ti < Len(votes)
    /\ Len(nodes) = 3
    /\ margin[0][2] /= 0

----------------------------------------------------------------------------
(* C9 *)

\* C9: M[i][j] is the number of ballots that rank i ahead of j minus the
\* number that rank j ahead of i (after ti ballots: among the first ti).
C9_MarginIsNetPreference ==
    MatrixBuilt =>
        \A i, j \in 0..(Len(nodes) - 1) : i /= j => margin[i][j] = NetMargin(i, j, ti)

\* three candidates, all ballots tallied, ballots disagreeing on some pair
C9_Witness ==
    /\ Tabulated
    /\ Len(nodes) = 3
    /\ Len(votes) >= 3
    /\ Prefer(0, 2, Len(votes)) > 0
    /\ Prefer(2, 0, Len(votes)) > Prefer(0, 2, Len(votes))

----------------------------------------------------------------------------
(* C10 *)

RECURSIVE TallyAll(_, _, _, _)
\* the loop of tabulate over the ballots vs, from ballot k on
TallyAll(M, vs, k, n) ==
    IF k > Len(vs) THEN M
    ELSE TallyAll(AccumulateBallot(M, vs[k], n), vs, k + 1, n)

BallotOrders(k) == {p \in [1..k -> 1..k] : \A a, b \in 1..k : a /= b => p[a] /= p[b]}

Reordered(vs, p) == [k \in 1..Len(vs) |-> vs[p[k]]]

\* tabulate has just returned: votes and margin do not change afterwards
TabulateReturned == pc = "lock" /\ li = 0

\* C10: the margin matrix produced by tabulate is the same for every order in
\* which the recorded ballots could have been recorded.
C10_TallyOrderIndependent ==
    TabulateReturned =>
        \A p \in BallotOrders(Len(votes)) :
            TallyAll(ZeroMatrix(Len(nodes)), Reordered(votes, p), 1, Len(nodes)) = margin

\* at least two different ballots were recorded, so some order differs
C10_Witness ==
    /\ TabulateReturned
    /\ Len(nodes) = 3
    /\ Len(votes) >= 2
    /\ votes[1] /= votes[2]

----------------------------------------------------------------------------
(* The election of four candidates registered as Alice, Bob, Carol, Dave,  *)
(* from the point where vote() has returned with at most MaxFourVoters     *)
(* ballots.                                                                *)

MaxFourVoters == 3    \* largest number of ballots of the four-candidate election

\* the 24 rankings of four candidates
BallotList4 ==
    <<
       <<0, 1, 2, 3>>, <<0, 1, 3, 2>>, <<0, 2, 1, 3>>, <<0, 2, 3, 1>>,
       <<0, 3, 1, 2>>, <<0, 3, 2, 1>>, <<1, 0, 2, 3>>, <<1, 0, 3, 2>>,
       <<1, 2, 0, 3>>, <<1, 2, 3, 0>>, <<1, 3, 0, 2>>, <<1, 3, 2, 0>>,
       <<2, 0, 1, 3>>, <<2, 0, 3, 1>>, <<2, 1, 0, 3>>, <<2, 1, 3, 0>>,
       <<2, 3, 0, 1>>, <<2, 3, 1, 0>>, <<3, 0, 1, 2>>, <<3, 0, 2, 1>>,
       <<3, 1, 0, 2>>, <<3, 1, 2, 0>>, <<3, 2, 0, 1>>, <<3, 2, 1, 0>>
    >>

RECURSIVE SortedSeqsOver(_, _, _)
\* the non-decreasing sequences of n numbers of lo..hi
SortedSeqsOver(n, lo, hi) ==
    IF n = 0 THEN {<<>>}
    ELSE UNION {{<<t>> \o q : q \in SortedSeqsOver(n - 1, t, hi)} : t \in lo..hi}

FourBallots ==
    UNION {{[k \in 1..n |-> BallotList4[q[k]]] : q \in SortedSeqsOver(n, 1, Len(BallotList4))}
              : n \in 0..MaxFourVoters}

InitFour ==
    /\ pc = "tabulate"
    /\ args = SubSeq(ApiCandidates, 1, 4)
    /\ nodes = Registered(4).nodes
    /\ names_ids_map = Registered(4).map
    /\ votes \in FourBallots
    /\ pairs = <<>>
    /\ voters = Len(votes)
    /\ voter_votes = <<>>
    /\ voted = {}
    /\ margin = EmptyMatrix
    /\ ti = 0
    /\ li = 0
    /\ lastLock = NoLock
    /\ winner = -1
    /\ output = "Rank"

SpecFour == InitFour /\ [][AfterVote]_vars

\* lock_pairs is a sequential loop: an iteration that can run does run
SpecFourFair == SpecFour /\ WF_vars(LockPairsStep)

----------------------------------------------------------------------------
(* C11 *)

\* the pairs as pushed by tabulate, before the sort
Built == BuildPairs(margin, Len(nodes), <<>>)

Occurrences(q, x) == Cardinality({k \in 1..Len(q) : q[k] = x})

\* C11: after tabulate the pair list is a permutation of the pairs that were
\* built and is ordered by non-increasing weight.
C11_SortedPermutation ==
    Tabulated =>
        /\ Len(pairs) = Len(Built)
        /\ \A x \in Range(Built) \cup Range(pairs) :
              Occurrences(pairs, x) = Occurrences(Built, x)
        /\ \A p, q \in 1..Len(pairs) : p < q => pairs[p].weight >= pairs[q].weight

\* six pairs of different weights, and the sort moved some
C11_Witness ==
    /\ Tabulated
    /\ Len(pairs) = 6
    /\ pairs /= Built
    /\ Cardinality({pairs[k].weight : k \in 1..Len(pairs)}) >= 2

----------------------------------------------------------------------------
(* C12 *)

\* position at which pair x was pushed
PushedAt(x) == CHOOSE k \in 1..Len(Built) : Built[k] = x

\* C12: two pairs of equal weight are in the sorted pair list in the order
\* in which they were pushed.
C12_RankingStable ==
    Tabulated =>
        \A p, q \in 1..Len(pairs) :
            (p < q /\ pairs[p].weight = pairs[q].weight)
                => PushedAt(pairs[p]) < PushedAt(pairs[q])

----------------------------------------------------------------------------
(* The registry methods of TidemanGraph driven directly, in any order, on  *)
(* a graph that starts as TidemanGraph::new().                             *)

RegNames == {"Alice", "alice", "Bob", "bob", "Carol"}

InitRegistry ==
    /\ pc = "registry"
    /\ args = <<>>
    /\ nodes = <<>>
    /\ names_ids_map = EmptyMap
    /\ votes = <<>>
    /\ pairs = <<>>
    /\ voters = 0
    /\ voter_votes = <<>>
    /\ voted = {}
    /\ margin = EmptyMatrix
    /\ ti = 0
    /\ li = 0
    /\ lastLock = NoLock
    /\ winner = -1
    /\ output = "none"

RegAddCandidate(name) ==
    /\ pc = "registry"
    /\ LET r == add_candidate(nodes, names_ids_map, name)
       IN  /\ nodes' = r.nodes
           /\ names_ids_map' = r.map
           /\ output' = r.result
    /\ UNCHANGED <<pc, args, votes, pairs, voters, voter_votes, voted, margin, ti,
                   li, lastLock, winner>>

RegContains(candidate) ==
    /\ pc = "registry"
    /\ output' = IF contains(names_ids_map, candidate) THEN "true" ELSE "false"
    /\ UNCHANGED <<pc, args, nodes, names_ids_map, votes, pairs, voters, voter_votes,
                   voted, margin, ti, li, lastLock, winner>>

RegGetCandidateId(candidate) ==
    /\ pc = "registry"
    /\ output' = get_candidate_id(names_ids_map, candidate).result
    /\ UNCHANGED <<pc, args, nodes, names_ids_map, votes, pairs, voters, voter_votes,
                   voted, margin, ti, li, lastLock, winner>>

NextRegistry ==
    \/ \E name \in RegNames : RegAddCandidate(name)
    \/ \E candidate \in RegNames : RegContains(candidate)
    \/ \E candidate \in RegNames : RegGetCandidateId(candidate)

SpecRegistry == InitRegistry /\ [][NextRegistry]_vars

\* a candidate whose lowercased name equals that of `name` is registered
RegisteredAs(ns, name) ==
    \E k \in 1..Len(ns) : to_lowercase(ns[k].candidate) = to_lowercase(name)

\* the id of the candidate registered under a name equal to `name` up to case
IdOf(ns, name) ==
    (CHOOSE k \in 1..Len(ns) : to_lowercase(ns[k].candidate) = to_lowercase(name)) - 1

----------------------------------------------------------------------------
(* C13 *)

\* C13: add_candidate(name) fails with CandidateAlreadyExistsError exactly
\* when a candidate with the same lowercased name was registered before;
\* otherwise it appends one node that keeps the name as given, and the id
\* recorded for the name is the number of candidates registered before.
C13_AddCandidateOutcome ==
    [][\A name \in RegNames :
          RegAddCandidate(name) =>
              /\ (output' = "CandidateAlreadyExistsError") <=> RegisteredAs(nodes, name)
              /\ (output' = "Ok") <=> ~RegisteredAs(nodes, name)
              /\ ~RegisteredAs(nodes, name) =>
                    /\ nodes' = Append(nodes, [candidate |-> name, links |-> <<>>])
                    /\ to_lowercase(name) \in DOMAIN names_ids_map'
                    /\ names_ids_map'[to_lowercase(name)] = Len(nodes)
              /\ RegisteredAs(nodes, name) => nodes' = nodes]_vars

\* a registration was refused although the name differs in case from the
\* one registered, whose node kept its original casing
C13_Witness ==
    /\ pc = "registry"
    /\ output = "CandidateAlreadyExistsError"
    /\ Len(nodes) = 2
    /\ nodes[1].candidate = "Alice"
    /\ nodes[2].candidate = "bob"

----------------------------------------------------------------------------
(* C14 *)

\* C14: after any sequence of add_candidate calls, failed ones included,
\* every registered name maps to the id it received when it was registered,
\* that id is below len(), and the node with that id is that candidate.
C14_RegistryKeepsIds ==
    pc = "registry" =>
        /\ \A k \in 1..Len(nodes) :
              LET key == to_lowercase(nodes[k].candidate)
              IN  /\ key \in DOMAIN names_ids_map
                  /\ names_ids_map[key] = k - 1
        /\ \A key \in DOMAIN names_ids_map : names_ids_map[key] < Len(nodes)

----------------------------------------------------------------------------
(* C15 *)

\* C15: for every string equal up to case to a registered name, contains is
\* true and get_candidate_id returns that candidate's id; for every other
\* string get_candidate_id returns CandidateNotFoundError.
C15_LookupIgnoresCase ==
    pc = "registry" =>
        \A s \in RegNames :
            IF RegisteredAs(nodes, s)
            THEN /\ contains(names_ids_map, s)
                 /\ get_candidate_id(names_ids_map, s) = [result |-> "Ok", id |-> IdOf(nodes, s)]
            ELSE /\ ~contains(names_ids_map, s)
                 /\ get_candidate_id(names_ids_map, s).result = "CandidateNotFoundError"

----------------------------------------------------------------------------
(* C16 *)

\* C16: every ballot stored in votes is a permutation of the candidate ids:
\* its length is len(), every entry is below len(), no id occurs twice.
C16_BallotsArePermutations ==
    \A k \in 1..Len(votes) :
        /\ Len(votes[k]) = Len(nodes)
        /\ \A a \in 1..Len(votes[k]) : votes[k][a] >= 0 /\ votes[k][a] < Len(nodes)
        /\ \A a, b \in 1..Len(votes[k]) : a /= b => votes[k][a] /= votes[k][b]

\* a ballot of three candidates is stored and a repeated name was just refused
C16_Witness ==
    /\ pc = "vote"
    /\ Len(nodes) = 3
    /\ Len(votes) >= 1
    /\ Len(voter_votes) = 2
    /\ output = "You already voted for that candidate"

----------------------------------------------------------------------------
(* C17 *)

Refusals == {"You already voted for that candidate", "That candidate does not exist"}

\* C17: entering an unknown name, or a name already used on the current
\* ballot, changes neither the recorded ballots nor the ranks accepted on
\* the current ballot nor the rank being asked, and never reaches the matrix.
C17_RefusedEntryChangesNothing ==
    [][\A inp \in VoteInputs :
          (VoteEntryOf(inp)
             /\ (~RegisteredAs(nodes, inp) \/ IdOf(nodes, inp) \in Range(voter_votes)))
          => /\ votes' = votes
             /\ voter_votes' = voter_votes
             /\ voted' = voted
             /\ pc' = pc
             /\ margin' = margin
             /\ output' \in Refusals]_vars

\* an unknown name was refused in the middle of the second ballot
C17_Witness ==
    /\ pc = "vote"
    /\ Len(votes) >= 1
    /\ Len(voter_votes) >= 1
    /\ output = "That candidate does not exist"

----------------------------------------------------------------------------
(* C18 *)

Abs(x) == IF x < 0 THEN -x ELSE x

\* the positions of the pair list that hold the unordered pair {i, j}
PairsOf(i, j) ==
    {k \in 1..Len(pairs) : {pairs[k].winner_id, pairs[k].loser_id} = {i, j}}

\* C18: after tabulate on n candidates the pair list holds exactly one pair
\* for each of the n(n-1)/2 unordered pairs {i,j}, with winner /= loser,
\* weight >= 0, weight = M[winner][loser] = |M[i][j]|, and a non-zero margin
\* makes the candidate with the positive margin the winner.
C18_OnePairPerMatchup ==
    Tabulated =>
        LET n == Len(nodes)
        IN  /\ 2 * Len(pairs) = n * (n - 1)
            /\ \A i, j \in 0..(n - 1) : i < j =>
                  /\ Cardinality(PairsOf(i, j)) = 1
                  /\ \A k \in PairsOf(i, j) :
                        /\ pairs[k].weight = Abs(margin[i][j])
                        /\ margin[i][j] > 0 => pairs[k].winner_id = i
                        /\ margin[i][j] < 0 => pairs[k].winner_id = j
            /\ \A k \in 1..Len(pairs) :
                  /\ pairs[k].winner_id /= pairs[k].loser_id
                  /\ pairs[k].weight >= 0
                  /\ pairs[k].weight = margin[pairs[k].winner_id][pairs[k].loser_id]

\* four candidates with margins of both signs seen from the lower id
C18_Witness ==
    /\ Tabulated
    /\ Len(nodes) = 4
    /\ margin[0][1] > 0
    /\ margin[0][2] < 0
    /\ margin[1][3] < 0

----------------------------------------------------------------------------
(* C19 *)

\* C19 (as claimed): for i < j with M[i][j] = 0 the pair built by tabulate
\* has winner i (the lower id), loser j and weight 0.
C19_ZeroMarginLowerWins ==
    Tabulated =>
        \A i, j \in 0..(Len(nodes) - 1) :
            (i < j /\ margin[i][j] = 0)
                => \A k \in PairsOf(i, j) : pairs[k] = TidemanPair_new(i, j, 0)

\* C19 (amended): for i < j with M[i][j] = 0 the pair built by tabulate has
\* winner j (the higher id), loser i and weight 0.
C19_ZeroMarginHigherWins ==
    Tabulated =>
        \A i, j \in 0..(Len(nodes) - 1) :
            (i < j /\ margin[i][j] = 0)
                => /\ PairsOf(i, j) /= {}
                   /\ \A k \in PairsOf(i, j) : pairs[k] = TidemanPair_new(j, i, 0)

\* some margins are zero and some are not
C19_Witness ==
    /\ Tabulated
    /\ Len(votes) >= 2
    /\ \E i, j \in 0..(Len(nodes) - 1) : i < j /\ margin[i][j] = 0
    /\ \E i, j \in 0..(Len(nodes) - 1) : i < j /\ margin[i][j] /= 0

----------------------------------------------------------------------------
(* C20 *)

\* C20: lock_pairs calls lock once for every pair of the sorted list, in
\* list order from index 0; a LockCreatedCycleError neither ends the loop
\* nor reaches the caller, and the loop always runs to its end.
C20_LockPairsRunsThrough ==
    /\ [][pc = "lock" =>
            /\ li < Len(pairs)
            /\ li' = li + 1
            /\ lastLock'.winner_id = pairs[li + 1].winner_id
            /\ lastLock'.loser_id = pairs[li + 1].loser_id
            /\ lastLock'.result \in {"Ok", "LockCreatedCycleError"}
            /\ pairs' = pairs
            /\ output' = output
            /\ pc' = IF li' < Len(pairs) THEN "lock" ELSE "winner"]_vars
    /\ [](pc = "lock" /\ li = 0 => <>(pc = "winner" /\ li = Len(pairs)))

\* the loop has ended although an earlier attempt, not the last, was refused
C20_Witness ==
    /\ pc = "winner"
    /\ li = Len(pairs)
    /\ Len(pairs) = 6
    /\ lastLock.result = "Ok"
    /\ EdgeCount(nodes) < 6

----------------------------------------------------------------------------
(* C21 *)

\* the graph of the same candidates with no locked edge
Unlocked(ns) == [k \in 1..Len(ns) |-> TidemanNode_new(ns[k].candidate)]

----------------------------------------------------------------------------
(* C22 *)

\* the argument list is one that main must refuse
BadArgs(a) ==
    \/ Len(a) < 2
    \/ \E x, y \in 1..Len(a) : x /= y /\ to_lowercase(a[x]) = to_lowercase(a[y])

\* main has panicked on its arguments
ConfigError == pc = "panic" /\ output \in {"Usage", "CandidateAlreadyExistsError"}

\* C22: a run of main whose arguments are fewer than two candidates, or hold
\* two candidates equal up to case, ends in a configuration error and never
\* gets to the voter count; in the state of the error no ballot, margin, pair,
\* lock or winner exists, and no further step is taken from it.
C22_ConfigErrorAbortsEarly ==
    /\ [](BadArgs(args) => pc \in {"start", "register", "panic"})
    /\ [](BadArgs(args) /\ pc = "panic" => ConfigError)
    /\ [](ConfigError =>
            /\ BadArgs(args)
            /\ voters = 0
            /\ votes = <<>>
            /\ voter_votes = <<>>
            /\ margin = EmptyMatrix
            /\ pairs = <<>>
            /\ lastLock = NoLock
            /\ winner = -1
            /\ \A k \in 1..Len(nodes) : nodes[k].links = <<>>)
    /\ [][~ConfigError]_vars

\* the third argument repeats an earlier one in another casing
C22_Witness ==
    /\ ConfigError
    /\ Len(args) = 3
    /\ Len(nodes) = 2
    /\ args[3] /= args[1]
    /\ to_lowercase(args[3]) = to_lowercase(args[1])

----------------------------------------------------------------------------
(* C23 *)

\* C23: a lock call, made by lock_pairs or directly, that is given an index
\* out of range returns CandidateNotFoundError, and a call that returns
\* CandidateNotFoundError or LockCreatedCycleError leaves the links of every
\* node exactly as they were before the call.
C23_FailedLockChangesNothing ==
    [][(ApiLock \/ LockPairsStep) =>
          /\ (~ValidId(nodes, lastLock'.winner_id) \/ ~ValidId(nodes, lastLock'.loser_id))
                => lastLock'.result = "CandidateNotFoundError"
          /\ lastLock'.result = "CandidateNotFoundError"
                => (~ValidId(nodes, lastLock'.winner_id) \/ ~ValidId(nodes, lastLock'.loser_id))
          /\ lastLock'.result \in {"CandidateNotFoundError", "LockCreatedCycleError"}
                => nodes' = nodes]_vars

\* a refused edge on a graph that already holds two edges
C23_Witness ==
    /\ lastLock.result = "LockCreatedCycleError"
    /\ EdgeCount(nodes) >= 2
    /\ ~HasEdge(nodes, lastLock.winner_id, lastLock.loser_id)

----------------------------------------------------------------------------
(* C24 *)

\* q starts with p
IsPrefix(p, q) == Len(p) <= Len(q) /\ SubSeq(q, 1, Len(p)) = p

\* C24: during lock_pairs the locked edges only grow: every step keeps the
\* links of every node as a prefix of its new links, and an attempt that
\* returned Ok has its edge winner->loser in the graph from then on.
C24_LockedEdgesOnlyGrow ==
    /\ [][Tabulated =>
            /\ Len(nodes') = Len(nodes)
            /\ \A k \in 1..Len(nodes) : IsPrefix(nodes[k].links, nodes'[k].links)
            /\ (LockPairsStep /\ lastLock'.result = "Ok")
                  => HasEdge(nodes', lastLock'.winner_id, lastLock'.loser_id)]_vars
    /\ [](Tabulated =>
            \A k \in 1..li :
                HasEdge(lock_pairs_from(Unlocked(nodes), pairs, 0, k),
                        pairs[k].winner_id, pairs[k].loser_id)
                    => HasEdge(nodes, pairs[k].winner_id, pairs[k].loser_id))

\* an attempt was refused after edges had been locked, and a later one was kept
C24_Witness ==
    /\ LockingOver
    /\ lastLock.result = "Ok"
    /\ EdgeCount(nodes) >= 3
    /\ EdgeCount(nodes) < Len(pairs)

----------------------------------------------------------------------------
(* C25 *)

\* C25: during and after lock_pairs every locked edge a->b is the
\* winner->loser of a pair of the list that has already been attempted, no
\* edge occurs twice in a node's links, and no two nodes are locked both ways.
C25_EdgesArePairs ==
    Tabulated =>
        \A a \in 0..(Len(nodes) - 1) :
            LET links == nodes[a + 1].links
            IN  /\ \A x \in 1..Len(links) :
                      /\ \E k \in 1..li : /\ pairs[k].winner_id = a
                                          /\ pairs[k].loser_id = links[x]
                      /\ ~HasEdge(nodes, links[x], a)
                /\ \A x, y \in 1..Len(links) : x /= y => links[x] /= links[y]

\* a node with two locked edges while attempts are still to come
C25_Witness ==
    /\ pc = "lock"
    /\ li < Len(pairs)
    /\ \E a \in 0..(Len(nodes) - 1) : Len(nodes[a + 1].links) >= 2
    /\ EdgeCount(nodes) < li

----------------------------------------------------------------------------
(* C26 *)

Lower(p) == IF p.winner_id < p.loser_id THEN p.winner_id ELSE p.loser_id

Higher(p) == IF p.winner_id < p.loser_id THEN p.loser_id ELSE p.winner_id

\* every ballot has been accumulated and the pairs are about to be pushed
ReadyToPush == pc = "tally" /\ ti = Len(votes)

\* C26 (as claimed): the pairs are pushed with the lower id ascending and,
\* within one lower id, the higher id ascending.
C26_PushedLowerIdFirst ==
    ReadyToPush =>
        \A x, y \in 1..Len(Built) : x < y =>
            \/ Lower(Built[x]) < Lower(Built[y])
            \/ Lower(Built[x]) = Lower(Built[y]) /\ Higher(Built[x]) < Higher(Built[y])

\* C26 (amended): the pairs are pushed with the higher id ascending and,
\* within one higher id, the lower id ascending (for four candidates:
\* {0,1},{0,2},{1,2},{0,3},{1,3},{2,3}).
C26_PushedHigherIdFirst ==
    ReadyToPush =>
        /\ \A x, y \in 1..Len(Built) : x < y =>
              \/ Higher(Built[x]) < Higher(Built[y])
              \/ Higher(Built[x]) = Higher(Built[y]) /\ Lower(Built[x]) < Lower(Built[y])
        /\ Len(nodes) = 4 =>
              [k \in 1..Len(Built) |-> <<Lower(Built[k]), Higher(Built[k])>>]
                  = << <<0, 1>>, <<0, 2>>, <<1, 2>>, <<0, 3>>, <<1, 3>>, <<2, 3>> >>

\* four candidates and ballots that make winners of lower and of higher ids
C26_Witness ==
    /\ ReadyToPush
    /\ Len(nodes) = 4
    /\ \E k \in 1..Len(Built) : Built[k].winner_id < Built[k].loser_id
    /\ \E k \in 1..Len(Built) : Built[k].winner_id > Built[k].loser_id /\ Built[k].weight > 0

----------------------------------------------------------------------------
(* Runs of main on two or three candidates together with the elections of  *)
(* four candidates that start at tabulate.                                 *)

SpecElections == (Init \/ InitFour) /\ [][Next]_vars

----------------------------------------------------------------------------
(* C27 *)

\* get_winner was called on the graph left by lock_pairs
AfterLockPairs == LockingOver \/ (pc = "panic" /\ output = "Could not compute winner")

\* C27: the first attempt of lock_pairs, on the empty graph, returns Ok; the
\* edge of the pair at position 0 is in the lock graph from then on, so after
\* lock_pairs on two or more candidates the graph has at least one edge.
C27_FirstPairIsLocked ==
    /\ (Tabulated /\ li = 1) => lastLock.result = "Ok"
    /\ ((Tabulated \/ AfterLockPairs) /\ li >= 1)
          => HasEdge(nodes, pairs[1].winner_id, pairs[1].loser_id)
    /\ (AfterLockPairs /\ Len(nodes) >= 2) => (li >= 1 /\ EdgeCount(nodes) >= 1)

\* lock_pairs is over, the first pair was a real victory and a later one was refused
C27_Witness ==
    /\ AfterLockPairs
    /\ pairs[1].weight > 0
    /\ EdgeCount(nodes) < Len(pairs)

----------------------------------------------------------------------------
(* C28 *)

\* C28: with two or more candidates and any valid ballots, none or all-tied
\* included, get_winner after tabulate and lock_pairs finds a candidate to
\* return and never reaches the "Could not compute winner" panic.
C28_GetWinnerNeverPanics ==
    /\ (pc = "winner" /\ Len(nodes) >= 2) => winner_choices(nodes) /= {}
    /\ output /= "Could not compute winner"
    /\ pc = "done" => (winner \in 0..(Len(nodes) - 1) /\ output = "The winner is")

\* every margin is zero and a winner was announced
C28_Witness ==
    /\ pc = "done"
    /\ Len(votes) >= 2
    /\ \A k \in 1..Len(pairs) : pairs[k].weight = 0
    /\ winner \in 0..(Len(nodes) - 1)

----------------------------------------------------------------------------
(* C29 *)

\* c beats every other candidate head to head
Condorcet(c) == \A x \in 0..(Len(nodes) - 1) : x /= c => margin[c][x] > 0

\* C29 (as claimed): a candidate with a strictly positive margin against
\* every other one is, after lock_pairs, the only candidate with no incoming
\* and at least one outgoing locked edge, and is the one get_winner returns.
C29_CondorcetWinnerWins ==
    \A c \in 0..(Len(nodes) - 1) :
        (LockingOver /\ Condorcet(c)) =>
            /\ Undefeated(nodes) = {c}
            /\ pc = "done" => winner = c

----------------------------------------------------------------------------
(* C30 *)

RECURSIVE TotalLinks(_, _)
\* the number of edges stored in the links of the first k nodes
TotalLinks(ns, k) == IF k = 0 THEN 0 ELSE Len(ns[k].links) + TotalLinks(ns, k - 1)

\* the largest number of calls a search that marks its nodes can make on ns:
\* the first call and one call for each stored edge
CallBudget(ns) == 1 + TotalLinks(ns, Len(ns))

\* the search from `start` on ns ends within CallBudget(ns) calls, visits no
\* node twice and answers what has_cycles_from answers
SearchEnds(ns, start) ==
    LET r == has_cycles_dfs_fuel(ns, start, {}, 2 * CallBudget(ns))
    IN  /\ ~r.out
        /\ 2 * CallBudget(ns) - r.fuel <= CallBudget(ns)
        /\ r.visited \subseteq 0..(Len(ns) - 1)
        /\ r.found = has_cycles_from(ns, start)

\* C30: has_cycles_from terminates on every graph lock can hand it: the lock
\* graph of an election with any one edge pushed on top, cycles, self-loops
\* and repeated edges included; each call either marks a new node or returns,
\* so the search makes at most one call per stored edge plus one, and the
\* loop of lock_pairs reaches its end.
C30_CycleSearchTerminates ==
    /\ [](pc = "lock" =>
            \A w, l \in 0..(Len(nodes) - 1) : SearchEnds(link(nodes, w, l), w))
    /\ (pc = "lock") ~> (pc = "winner")

\* some tentative edge closes a cycle of three or more edges on the graph
C30_Witness ==
    /\ pc = "lock"
    /\ li >= 2
    /\ \E w, l \in 0..(Len(nodes) - 1) :
          /\ w /= l
          /\ HasPath(nodes, l, w)
          /\ ~HasEdge(nodes, l, w)
          /\ has_cycles_from(link(nodes, w, l), w)

====
